---- MODULE Spec2Model ----
(***************************************************************************)
(* HistogramAxis (src/histogram/histogram_axis.py) as a state machine.     *)
(*                                                                         *)
(* Numbers.  Positions along an axis are modelled in fixed point: the      *)
(* integer v stands for the real number v/2, so that the midpoint of a bin *)
(* of width 1 is representable.  An edge array carries its numpy dtype:    *)
(* "int" (built from a list of Python ints, every entry a whole number,    *)
(* i.e. an even v) or "float".  Storing a value into an "int" array        *)
(* truncates it toward zero, as numpy does.                                *)
(*                                                                         *)
(* Objects.  A sequential caller owns one axis object (axis), calls one    *)
(* method on it (pc = "returned": call, before, ret, out, mask, raised     *)
(* describe the call and its outcome), then goes on with the receiver or   *)
(* with the axis the call returned (Keep).                                 *)
(*                                                                         *)
(* Histogram.  A second caller owns one Histogram (hist) and makes one     *)
(* call on it: arithmetic with an operand (other), rebin, or saving it to  *)
(* an HDF5 group (grp) and loading it again                                *)
(* (src/histogram/serialization/histogram_hdf5.py); hout is the Histogram  *)
(* the call returned.  Bin contents are exact rationals.                   *)
(***************************************************************************)
EXTENDS Integers, Sequences, FiniteSets, TLC

VARIABLES axis, pc, call, before, ret, out, mask, raised, calls,
          hist, other, hout, grp

\* The axis caller's state, and the state of a caller that owns a
\* Histogram: the receiver hist, the operand of an arithmetic call (other),
\* the Histogram a call returned (hout) and the HDF5 group written (grp).
avars == <<axis, before, ret, out, mask>>
hvars == <<hist, other, hout, grp>>
vars == <<axis, pc, call, before, ret, out, mask, raised, calls,
          hist, other, hout, grp>>

\* No Histogram, no operand.
NoHist == [id |-> 0]
NoArg == [kind |-> "none"]

(* ------------------------------ bounds ------------------------------- *)

\* Edges given to a constructor or to the edges setter lie in 0..MaxEdge
\* (the reals 0, 1/2, .., MaxEdge/2), so an axis has up to MaxEdge bins.
MaxEdge == 4
\* Calls a caller makes in a row, each on the receiver so far or on the
\* axis the call before returned.
MaxCalls == 2

Grid == 0..MaxEdge
\* Positions x, low, high: the grid and one point below and above it.
Points == (0 - 1)..(MaxEdge + 1)
\* The axes mergebins alone is applied to have up to MaxBins bins.
MaxBins == 6
\* Group sizes handed to mergebins: 0, and up to more than any nbins.
MergeSizes == 0..(MaxBins + 1)

(* --------------------------- Python values --------------------------- *)

\* None is the empty set, a given value v the singleton {v}.
None == {}
Some(v) == {v}
Val(o) == CHOOSE v \in o : TRUE

IsWhole(v) == v % 2 = 0

\* Storing v into an array of the given dtype (numpy setitem cast).
Cast(dtype, v) ==
    IF dtype = "float" \/ IsWhole(v) THEN v
    ELSE IF v > 0 THEN v - 1 ELSE v + 1

Max2(a, b) == IF a > b THEN a ELSE b
Min2(a, b) == IF a < b THEN a ELSE b

\* A bound of a Python slice of a sequence of length n: a negative bound
\* counts from the end, and every bound is clamped to 0..n.
PyBound(i, n) == IF i < 0 THEN Max2(n + i, 0) ELSE Min2(i, n)

\* seq[a:b]
PySlice(s, a, b) ==
    LET lo == PyBound(a, Len(s))
        hi == PyBound(b, Len(s))
    IN  IF lo >= hi THEN <<>> ELSE [k \in 1..(hi - lo) |-> s[lo + k]]

\* seq[start:], the step left out.
PyStride_unit(s, start, step) ==
    IF start >= Len(s) THEN <<>> ELSE [k \in 1..(Len(s) - start) |-> s[start + k]]

\* seq[start::step], step >= 1, start >= 0.
PyStride(s, start, step) ==
    IF start >= Len(s) THEN <<>>
    ELSE [k \in 1..(((Len(s) - 1 - start) \div step) + 1) |-> s[start + (k - 1) * step + 1]]

\* The increasing enumeration of a finite set of integers.
RECURSIVE SortedSeq(_)
SortedSeq(S) ==
    IF S = {} THEN <<>>
    ELSE LET m == CHOOSE v \in S : \A w \in S : v <= w
         IN  <<m>> \o SortedSeq(S \ {m})

(* ------------------------------- axis -------------------------------- *)

\* all(x<y for x, y in zip(e, e[1:]))
StrictlyIncreasing(e) == \A k \in 1..(Len(e) - 1) : e[k] < e[k + 1]

nbins(e) == Len(e) - 1

\* np.searchsorted(edges, x, side='right'): numpy's binary search, which on
\* a sorted array is the number of entries <= x.
RECURSIVE BinSearchRight(_, _, _, _)
BinSearchRight(e, x, lo, hi) ==
    IF lo >= hi THEN lo
    ELSE LET mid == lo + ((hi - lo) \div 2)
         IN  IF x < e[mid + 1] THEN BinSearchRight(e, x, lo, mid)
             ELSE BinSearchRight(e, x, mid + 1, hi)

searchsorted_right(e, x) == BinSearchRight(e, x, 0, Len(e))

\* bin without the "- 1".
bin_insertion_point(e, x) == searchsorted_right(e, x)

bin(e, x) == searchsorted_right(e, x) - 1

inaxis(e, x) == e[1] <= x /\ x < e[Len(e)]

\* lowbin without the clamp to minbin.
lowbin_unclamped(e, x) == bin(e, x)

lowbin(e, x) == Max2(bin(e, x), 0)
highbin(e, x) == Min2(bin(e, x) + 1, Len(e) - 1)

Abs(v) == IF v < 0 THEN 0 - v ELSE v

\* e[i] for a Python index i (negative counts from the end).
PyGet(e, i) == IF i < 0 THEN e[Len(e) + i + 1] ELSE e[i + 1]
PyIndexOK(e, i) == (0 - Len(e)) <= i /\ i < Len(e)

EdgeSnaps == {"nearest", "low", "high", "both"}

\* What edge_index raises ("none" when it returns).
edge_index_raises(e, x, snap) ==
    IF snap \notin EdgeSnaps THEN "AssertionError"
    ELSE IF snap = "nearest"
            /\ ~(PyIndexOK(e, lowbin(e, x)) /\ PyIndexOK(e, highbin(e, x)))
         THEN "IndexError"
    ELSE "none"

\* nearest with dlow <= dhigh for dlow < dhigh.
nearest_le(e, x) ==
    LET low == PyGet(e, lowbin(e, x))
        high == PyGet(e, highbin(e, x))
        dlow == Abs(x - low)
        dhigh == Abs(high - x)
    IN  IF dlow <= dhigh THEN lowbin(e, x) ELSE highbin(e, x)

nearest(e, x) ==
    LET low == PyGet(e, lowbin(e, x))
        high == PyGet(e, highbin(e, x))
        dlow == Abs(x - low)
        dhigh == Abs(high - x)
    IN  IF dlow < dhigh THEN lowbin(e, x) ELSE highbin(e, x)

\* The value edge_index returns: <<i>>, or <<low, high>> for snap 'both'.
edge_index(e, x, snap) ==
    IF snap = "nearest" THEN <<nearest(e, x)>>
    ELSE IF snap = "both" THEN <<lowbin(e, x), highbin(e, x)>>
    ELSE IF snap = "low" THEN <<lowbin(e, x)>>
    ELSE <<highbin(e, x)>>

(* --------------------------- construction ---------------------------- *)

NoLimits == [kind |-> "none"]

\* The label setter: None and '' leave the label absent, a string is kept,
\* anything else is stored as its str().
LabelSet(l) == IF l = None \/ l = Some("") THEN None ELSE l

\* The constructor's second positional argument taken as a label.
LimitsAsLabel(limits) ==
    IF limits.kind = "none" THEN None
    ELSE IF limits.kind = "str" THEN LabelSet(Some(limits.s))
    ELSE Some("str(limits)")

\* The edges setter: what it raises for the array e ("none": e is installed).
edges_setter_raises(e) ==
    IF ~StrictlyIncreasing(e) THEN "ValueError" ELSE "none"

\* np.linspace(lo, hi, n + 1) for n >= 0, on inputs where every point is
\* representable (n = 0 gives the single point lo).
linspace(lo, hi, n) ==
    IF n = 0 THEN <<lo>>
    ELSE [k \in 1..(n + 1) |-> lo + ((k - 1) * (hi - lo)) \div n]

Failed(ex) == [raised |-> ex, obj |-> None]
Built(e, dtype, label) ==
    IF edges_setter_raises(e) # "none" THEN Failed(edges_setter_raises(e))
    ELSE [raised |-> "none",
          obj |-> Some([edges |-> e, dtype |-> dtype, label |-> label])]

\* HistogramAxis(bins, limits, label).  bins is an int ([kind |-> "int"]),
\* a list or array of edges ("edges") or a HistogramAxis ("axis").
HistogramAxis(bins, limits, label) ==
    LET swap == bins.kind = "edges" /\ label = None
        label1 == IF swap THEN LimitsAsLabel(limits) ELSE LabelSet(label)
        limits1 == IF swap THEN NoLimits ELSE limits
    IN  IF limits1.kind # "none"
        THEN IF bins.kind # "int" THEN Failed("TypeError")
             ELSE IF limits1.kind = "str" \/ Len(limits1.v) # 2 THEN Failed("ValueError")
             ELSE IF ~(limits1.v[1] < limits1.v[2]) THEN Failed("ValueError")
             ELSE Built(linspace(limits1.v[1], limits1.v[2], bins.n), "float", label1)
        ELSE IF bins.kind = "axis"
        THEN Built(bins.axis.edges, bins.axis.dtype,
                   IF label = None THEN bins.axis.label ELSE LabelSet(label))
        ELSE IF bins.kind = "int" THEN Failed("AssertionError")
        ELSE Built(bins.edges, bins.dtype, label1)

\* HistogramAxis(newedges, label=copy(self.label)), as cut, mergebins and
\* clone call it.
Derived(e, a) ==
    HistogramAxis([kind |-> "edges", edges |-> e, dtype |-> a.dtype], NoLimits, a.label)

clone(a) == Derived(a.edges, a)

(* -------------------------------- cut -------------------------------- *)

CutSnaps == {"nearest", "expand", "low", "high", "clip"}

\* eisnap handing 'expand' to edge_index as 'nearest'.
eisnap_expand_nearest(s, side) ==
    IF s = "clip" THEN side ELSE IF s = "expand" THEN "nearest" ELSE s

\* The snap cut hands to edge_index for its low (side = "low") or high bound.
eisnap(s, side) == IF s \in {"clip", "expand"} THEN side ELSE s

\* newedges = self.edges[lowi:highi+1]
view(e, lowi, highi) == PySlice(e, lowi, highi + 1)

\* mask[lowi:highi+1] = True
cut_mask_inclusive(n, lowi, highi) == [k \in 1..n |-> lowi < k /\ k <= highi + 1]

\* mask = np.zeros((self.nbins,), dtype=np.bool); mask[lowi:highi] = True
\* (np.bool taken as the boolean dtype, as in the numpy releases that have it).
cut_mask(n, lowi, highi) == [k \in 1..n |-> lowi < k /\ k <= highi]

\* The receiver's array after newedges[0] = low and newedges[-1] = high,
\* newedges being the view edges[lowi:highi+1] (len entries) of it.
ClipWrites(e, dtype, lowi, len, low, high, s0, s1) ==
    LET e1 == IF low # None /\ s0 = "clip"
              THEN [e EXCEPT ![lowi + 1] = Cast(dtype, Val(low))] ELSE e
    IN  IF high # None /\ s1 = "clip"
        THEN [e1 EXCEPT ![lowi + len] = Cast(dtype, Val(high))] ELSE e1

\* self.cut(low, high, (s0, s1)): what it raises, the receiver's array when
\* it ends, and the axis and mask it returns.
cut(a, low, high, s0, s1) ==
    LET e == a.edges
        r0 == IF low = None THEN "none"
              ELSE edge_index_raises(e, Val(low), eisnap(s0, "low"))
        lowi == IF low = None THEN 0
                ELSE edge_index(e, Val(low), eisnap(s0, "low"))[1]
        r1 == IF high = None THEN "none"
              ELSE edge_index_raises(e, Val(high), eisnap(s1, "high"))
        highi == IF high = None THEN Len(e) - 1
                 ELSE edge_index(e, Val(high), eisnap(s1, "high"))[1]
        newedges == view(e, lowi, highi)
        clips == (low # None /\ s0 = "clip") \/ (high # None /\ s1 = "clip")
        e2 == ClipWrites(e, a.dtype, lowi, Len(newedges), low, high, s0, s1)
        made == Derived(view(e2, lowi, highi), a)
        fail(ex, after) ==
            [raised |-> ex, edges |-> after, obj |-> None, mask |-> <<>>]
    IN  IF s0 \notin CutSnaps \/ s1 \notin CutSnaps THEN fail("AssertionError", e)
        ELSE IF r0 # "none" THEN fail(r0, e)
        ELSE IF r1 # "none" THEN fail(r1, e)
        ELSE IF nbins(e) < 0 THEN fail("ValueError", e)
        ELSE IF clips /\ newedges = <<>> THEN fail("IndexError", e)
        ELSE IF made.raised # "none" THEN fail(made.raised, e2)
        ELSE [raised |-> "none", edges |-> e2, obj |-> made.obj,
              mask |-> cut_mask(nbins(e), lowi, highi)]

(* ----------------------------- mergebins ----------------------------- *)

MergeSnaps == {"low", "high"}

\* merged_edges ignoring snap when it clips.
merged_edges_nosnap(e, n, snap, clip) ==
    LET m == nbins(e) % n
    IN  IF m = 0 \/ clip THEN PyStride(e, 0, n)
        ELSE IF snap = "low" THEN PyStride(e, 0, n) \o <<PyGet(e, 0 - 1)>>
        ELSE <<PyGet(e, 0)>> \o PyStride(e, m, n)

merged_edges(e, n, snap, clip) ==
    LET m == nbins(e) % n
    IN  IF m = 0 THEN PyStride(e, 0, n)
        ELSE IF clip
        THEN IF snap = "low" THEN PyStride(e, 0, n) ELSE PyStride(e, m, n)
        ELSE IF snap = "low" THEN PyStride(e, 0, n) \o <<PyGet(e, 0 - 1)>>
        ELSE <<PyGet(e, 0)>> \o PyStride(e, m, n)

\* self.mergebins(n, snap, clip), n >= 0.
mergebins(a, n, snap, clip) ==
    LET e == a.edges
    IN  IF snap \notin MergeSnaps THEN Failed("AssertionError")
        ELSE IF n = 0 THEN Failed("ZeroDivisionError")
        ELSE IF nbins(e) % n # 0 /\ ~clip /\ e = <<>> THEN Failed("IndexError")
        ELSE Derived(merged_edges(e, n, snap, clip), a)

(* ----------------------------- the caller ---------------------------- *)

NoCall == [op |-> "none"]

Labels == {None, Some("x")}

\* Strictly increasing edge lists over the grid (the empty and the
\* one-element list included), each with the dtypes numpy can give it.
WholeList(e) == \A k \in 1..Len(e) : IsWhole(e[k])
DtypesOf(e) == IF e # <<>> /\ WholeList(e) THEN {"int", "float"} ELSE {"float"}

GoodLists == {SortedSeq(S) : S \in SUBSET Grid}
\* Lists that are not strictly increasing.
BadLists ==
    UNION {{<<v, w>> : w \in 0..v} : v \in Grid}
      \cup UNION {UNION {{<<v, w, w>>, <<v, w, v>>} : v \in 0..(w - 1)} : w \in 1..MaxEdge}

EdgeInputs(lists) ==
    UNION {{[kind |-> "edges", edges |-> e, dtype |-> d] : d \in DtypesOf(e)} : e \in lists}

LimitInputs ==
    {NoLimits, [kind |-> "str", s |-> "x"], [kind |-> "seq", v |-> <<0, 1, 2>>]}
      \cup {[kind |-> "seq", v |-> <<lo, hi>>] : lo \in Grid, hi \in Grid}

\* The count-and-range inputs np.linspace maps to representable points.
Representable(n, limits) ==
    (limits.kind = "seq" /\ Len(limits.v) = 2 /\ limits.v[1] < limits.v[2] /\ n > 0)
        => (limits.v[2] - limits.v[1]) % n = 0

\* The caller holds an axis built from one of the edge lists (any list the
\* constructor takes, the empty and the one-element one included).
Start(lists) ==
    /\ \E b \in EdgeInputs(lists), l \in Labels :
          /\ HistogramAxis(b, NoLimits, l).raised = "none"
          /\ axis = Val(HistogramAxis(b, NoLimits, l).obj)
    /\ pc = "idle"
    /\ call = NoCall
    /\ before = <<>>
    /\ ret = <<>>
    /\ out = None
    /\ mask = <<>>
    /\ raised = "none"
    /\ calls = 0
    /\ hist = NoHist
    /\ other = NoArg
    /\ hout = {}
    /\ grp = {}

Init == Start(GoodLists)

\* A call c on the receiver ends: the receiver's array is e, the call
\* returned the value r, the axis o and the mask m, or raised ex.
Returns(c, e, r, o, m, ex) ==
    /\ call' = c
    /\ before' = axis.edges
    /\ axis' = [axis EXCEPT !.edges = e]
    /\ ret' = r
    /\ out' = o
    /\ mask' = m
    /\ raised' = ex
    /\ pc' = "returned"
    /\ calls' = calls + 1
    /\ UNCHANGED hvars

Idle == pc = "idle" /\ calls < MaxCalls

\* HistogramAxis(n, limits, label)
ConstructCount ==
    /\ Idle
    /\ \E n \in 0..MaxEdge, limits \in LimitInputs, l \in Labels :
          /\ Representable(n, limits)
          /\ LET r == HistogramAxis([kind |-> "int", n |-> n], limits, l)
             IN  Returns([op |-> "init", bins |-> "int", n |-> n, limits |-> limits, label |-> l],
                         axis.edges, <<>>, r.obj, <<>>, r.raised)

\* HistogramAxis(edges, limits, label)
ConstructEdges ==
    /\ Idle
    /\ \E b \in EdgeInputs(GoodLists \cup BadLists), l \in Labels,
          limits \in {NoLimits, [kind |-> "str", s |-> "x"], [kind |-> "seq", v |-> <<0, 2>>]} :
          LET r == HistogramAxis(b, limits, l)
          IN  Returns([op |-> "init", bins |-> "edges", edges |-> b.edges, limits |-> limits, label |-> l],
                      axis.edges, <<>>, r.obj, <<>>, r.raised)

\* HistogramAxis(axis, limits, label)
ConstructCopy ==
    /\ Idle
    /\ \E l \in Labels, limits \in {NoLimits, [kind |-> "seq", v |-> <<0, 2>>]} :
          LET r == HistogramAxis([kind |-> "axis", axis |-> axis], limits, l)
          IN  Returns([op |-> "init", bins |-> "axis", limits |-> limits, label |-> l],
                      axis.edges, <<>>, r.obj, <<>>, r.raised)

\* self.edges = e
SetEdges ==
    /\ Idle
    /\ \E b \in EdgeInputs(GoodLists \cup BadLists) :
          LET ex == edges_setter_raises(b.edges)
          IN  /\ call' = [op |-> "setedges", edges |-> b.edges]
              /\ before' = axis.edges
              /\ axis' = IF ex = "none"
                         THEN [axis EXCEPT !.edges = b.edges, !.dtype = b.dtype]
                         ELSE axis
              /\ raised' = ex
    /\ ret' = <<>>
    /\ out' = None
    /\ mask' = <<>>
    /\ pc' = "returned"
    /\ calls' = calls + 1
    /\ UNCHANGED hvars

\* Values assigned to the label: None, '' and a string.
LabelInputs == {None, Some(""), Some("x")}

\* self.label = l
SetLabel ==
    /\ Idle
    /\ \E l \in LabelInputs :
          /\ call' = [op |-> "setlabel", label |-> l]
          /\ axis' = [axis EXCEPT !.label = LabelSet(l)]
    /\ before' = axis.edges
    /\ ret' = <<>>
    /\ out' = None
    /\ mask' = <<>>
    /\ raised' = "none"
    /\ pc' = "returned"
    /\ calls' = calls + 1
    /\ UNCHANGED hvars

\* self.clone()
Clone ==
    /\ Idle
    /\ Returns([op |-> "clone"], axis.edges, <<>>, clone(axis).obj, <<>>, clone(axis).raised)

\* self.inaxis(x)
InAxis ==
    /\ Idle
    /\ \E x \in Points :
          IF axis.edges = <<>>
          THEN Returns([op |-> "inaxis", x |-> x], axis.edges, <<>>, None, <<>>, "IndexError")
          ELSE Returns([op |-> "inaxis", x |-> x], axis.edges,
                       <<inaxis(axis.edges, x)>>, None, <<>>, "none")

\* self.bin(x)
Bin ==
    /\ Idle
    /\ \E x \in Points :
          Returns([op |-> "bin", x |-> x], axis.edges,
                  <<bin(axis.edges, x)>>, None, <<>>, "none")

\* self.edge_index(x, snap)
EdgeIndex ==
    /\ Idle
    /\ \E x \in Points, snap \in EdgeSnaps \cup {"expand"} :
          LET ex == edge_index_raises(axis.edges, x, snap)
          IN  Returns([op |-> "edge_index", x |-> x, snap |-> snap], axis.edges,
                      IF ex = "none" THEN edge_index(axis.edges, x, snap) ELSE <<>>,
                      None, <<>>, ex)

\* self.cut(low, high, snap)
Cut ==
    /\ Idle
    /\ \E low \in {None} \cup {Some(v) : v \in Points},
          high \in {None} \cup {Some(v) : v \in Points},
          s \in (CutSnaps \X CutSnaps) \cup {<<"both", "both">>} :
          LET r == cut(axis, low, high, s[1], s[2])
          IN  Returns([op |-> "cut", low |-> low, high |-> high, s0 |-> s[1], s1 |-> s[2]],
                      r.edges, <<>>, r.obj, r.mask, r.raised)

\* self.mergebins(n, snap, clip)
MergeBins ==
    /\ Idle
    /\ \E n \in MergeSizes, snap \in MergeSnaps \cup {"nearest"}, clip \in BOOLEAN :
          LET r == mergebins(axis, n, snap, clip)
          IN  Returns([op |-> "mergebins", n |-> n, snap |-> snap, clip |-> clip],
                      axis.edges, <<>>, r.obj, <<>>, r.raised)

\* The caller goes on with the receiver or with the axis the call returned.
Keep ==
    /\ pc = "returned"
    /\ \E o \in {axis} \cup out : axis' = o
    /\ pc' = "idle"
    /\ call' = NoCall
    /\ before' = <<>>
    /\ ret' = <<>>
    /\ out' = None
    /\ mask' = <<>>
    /\ raised' = "none"
    /\ UNCHANGED calls
    /\ UNCHANGED hvars

Next ==
    \/ ConstructCount \/ ConstructEdges \/ ConstructCopy \/ SetEdges \/ SetLabel
    \/ Clone
    \/ InAxis \/ Bin \/ EdgeIndex \/ Cut \/ MergeBins
    \/ Keep

\* Calls chained up to MaxCalls deep.
Spec == Init /\ [][Next]_vars

\* One call on a freshly constructed axis.
NextCall ==
    \/ ConstructCount \/ ConstructEdges \/ ConstructCopy \/ SetEdges \/ SetLabel
    \/ Clone
    \/ InAxis \/ Bin \/ EdgeIndex \/ Cut \/ MergeBins

SpecCall == Init /\ [][NextCall]_vars

\* mergebins alone, on axes of up to MaxBins bins.
InitMerge == Start({SortedSeq(S) : S \in SUBSET (0..MaxBins)})

SpecMerge == InitMerge /\ [][MergeBins]_vars

(* ------------------------------ claims ------------------------------- *)

Returned(op) == pc = "returned" /\ call.op = op

\* The edges of an axis as the claims speak of one: at least one bin (two
\* edges), strictly increasing.  The edges setter asks for less: it takes
\* any strictly increasing array, the empty and the one-element one too.
ValidEdges(e) == Len(e) >= 2 /\ StrictlyIncreasing(e)

\* C1: on an axis with strictly increasing edges and nbins >= 1, bin(x) is
\* the one i with edges[i] <= x < edges[i+1] when min <= x < max, it is -1
\* when x < min and nbins when x >= max; and inaxis(x) is true exactly when
\* 0 <= bin(x) < nbins.
C1_BinContract ==
    (Returned("bin") /\ ValidEdges(before)) =>
        LET e == before
            x == call.x
            i == ret[1]
        IN  /\ raised = "none"
            /\ (e[1] <= x /\ x < e[Len(e)]) =>
                  /\ 0 <= i /\ i < nbins(e)
                  /\ e[i + 1] <= x /\ x < e[i + 2]
                  /\ \A j \in 0..(nbins(e) - 1) :
                        (e[j + 1] <= x /\ x < e[j + 2]) => j = i
            /\ (x < e[1]) => i = 0 - 1
            /\ (x >= e[Len(e)]) => i = nbins(e)
            /\ inaxis(e, x) <=> (0 <= i /\ i < nbins(e))

\* C1 witness: bin has put a point into a bin that is neither the first
\* nor the last of its axis.
C1_Witness ==
    /\ Returned("bin") /\ ValidEdges(before)
    /\ nbins(before) >= 3
    /\ ret[1] = 1
    /\ before[2] < call.x

\* C4: for every edge index i, bin(edges[i]) = i; and for edge indices
\* i < j, cut(edges[i], edges[j]) with snap 'nearest' returns exactly the
\* edges i..j and a mask that is true exactly for the bins i..j-1.
C4_BoundaryAgreement ==
    (pc = "returned" /\ ValidEdges(before)) =>
        /\ call.op = "bin" =>
              \A i \in 0..nbins(before) : call.x = before[i + 1] => ret = <<i>>
        /\ (call.op = "edge_index" /\ call.snap = "nearest") =>
              \A i \in 0..nbins(before) : call.x = before[i + 1] => ret = <<i>>
        /\ (call.op = "cut" /\ call.s0 = "nearest" /\ call.s1 = "nearest"
                /\ call.low # None /\ call.high # None) =>
              \A i \in 0..nbins(before), j \in 0..nbins(before) :
                  (i < j /\ Val(call.low) = before[i + 1] /\ Val(call.high) = before[j + 1]) =>
                      /\ raised = "none"
                      /\ out # None
                      /\ Val(out).edges = [k \in 1..(j - i + 1) |-> before[i + k]]
                      /\ mask = [k \in 1..nbins(before) |-> i + 1 <= k /\ k <= j]

\* C4 witness: a cut from an inner edge to a later inner edge has returned.
C4_Witness ==
    /\ Returned("cut") /\ ValidEdges(before) /\ nbins(before) >= 4
    /\ call.s0 = "nearest" /\ call.s1 = "nearest"
    /\ call.low = Some(before[2]) /\ call.high = Some(before[4])
    /\ raised = "none" /\ Len(Val(out).edges) = 3
    /\ mask = <<FALSE, TRUE, TRUE, FALSE>>

\* C6: on an axis of the data model, for every x, edge_index(x, snap) with
\* snap nearest, low or high is an integer in 0..nbins; with snap both it
\* is a pair (lo, hi), 0 <= lo <= hi <= nbins, hi - lo <= 1; low returns
\* lo, high returns hi, nearest one of the two.
C6_EdgeIndexRange ==
    (Returned("edge_index") /\ ValidEdges(before) /\ call.snap \in EdgeSnaps) =>
        LET lo == lowbin(before, call.x)
            hi == highbin(before, call.x)
        IN  /\ raised = "none"
            /\ 0 <= lo /\ lo <= hi /\ hi <= nbins(before) /\ hi - lo <= 1
            /\ call.snap = "both" => ret = <<lo, hi>>
            /\ call.snap = "low" => ret = <<lo>>
            /\ call.snap = "high" => ret = <<hi>>
            /\ call.snap = "nearest" => (ret = <<lo>> \/ ret = <<hi>>)
            /\ call.snap # "both" =>
                  (Len(ret) = 1 /\ 0 <= ret[1] /\ ret[1] <= nbins(before))

\* C6 witness: edge_index has answered for a point below the axis, and for
\* the pair of a point inside it.
C6_Witness ==
    /\ Returned("edge_index") /\ ValidEdges(before)
    /\ \/ call.x < before[1] /\ call.snap = "low" /\ ret = <<0>>
       \/ call.snap = "both" /\ nbins(before) >= 2 /\ ret = <<1, 2>>

\* x is inside the axis and as far from the lower edge of its bin as from
\* the upper one.
Tie(e, x) ==
    /\ e[1] <= x /\ x < e[Len(e)]
    /\ Abs(x - e[lowbin(e, x) + 1]) = Abs(e[highbin(e, x) + 1] - x)

\* C7 as stated: on an exact tie edge_index(x, 'nearest') returns the
\* lower bounding edge index.
C7_TieToLow ==
    (Returned("edge_index") /\ ValidEdges(before) /\ call.snap = "nearest"
        /\ Tie(before, call.x)) => ret = <<lowbin(before, call.x)>>

\* C7 amended: for x inside the axis, edge_index(x, 'nearest') returns the
\* lower bounding edge index exactly when x is strictly closer to the lower
\* edge; on an exact tie it returns the upper one.
C7_TieToHigh ==
    (Returned("edge_index") /\ ValidEdges(before) /\ call.snap = "nearest"
        /\ before[1] <= call.x /\ call.x < before[Len(before)]) =>
        LET e == before
            x == call.x
            lo == lowbin(e, x)
            hi == highbin(e, x)
        IN  /\ hi = lo + 1
            /\ (Abs(x - e[lo + 1]) < Abs(e[hi + 1] - x)) => ret = <<lo>>
            /\ (Abs(x - e[lo + 1]) >= Abs(e[hi + 1] - x)) => ret = <<hi>>

\* C7 witness: edge_index 'nearest' has answered for the midpoint of a bin.
C7_Witness ==
    /\ Returned("edge_index") /\ ValidEdges(before) /\ call.snap = "nearest"
    /\ Tie(before, call.x)
    /\ ret = <<highbin(before, call.x)>>
    /\ highbin(before, call.x) = lowbin(before, call.x) + 1

\* C2: every axis object that exists, receiver or returned, has at least
\* 2 edges and strictly increasing edges.
C2_AxesValid ==
    /\ ValidEdges(axis.edges)
    /\ \A o \in out : ValidEdges(o.edges)

\* C3: cut never changes its receiver: the receiver's edges after the call,
\* returned or raised, are the edges before it.
C3_CutKeepsReceiver ==
    (Returned("cut") /\ ValidEdges(before)) => axis.edges = before

\* C5: cut(None, None, snap) returns the receiver's edges and label and a
\* mask true for every bin; with None on one side only, that side's
\* extreme edge is the receiver's.
C5_CutNoBounds ==
    (Returned("cut") /\ ValidEdges(before)
        /\ call.s0 \in CutSnaps /\ call.s1 \in CutSnaps) =>
        /\ (call.low = None /\ call.high = None) =>
              /\ raised = "none" /\ out # None
              /\ Val(out).edges = before
              /\ Val(out).label = axis.label
              /\ mask = [k \in 1..nbins(before) |-> TRUE]
        /\ (call.low = None /\ out # None) => Val(out).edges[1] = before[1]
        /\ (call.high = None /\ out # None) =>
              Val(out).edges[Len(Val(out).edges)] = before[Len(before)]

\* C8: cut(low, high, 'clip') with low < high returns a valid axis with
\* min = low and max = high.
C8_ClipExact ==
    (Returned("cut") /\ ValidEdges(before)
        /\ call.s0 = "clip" /\ call.s1 = "clip"
        /\ call.low # None /\ call.high # None /\ Val(call.low) < Val(call.high)) =>
        /\ raised = "none" /\ out # None
        /\ ValidEdges(Val(out).edges)
        /\ Val(out).edges[1] = Val(call.low)
        /\ Val(out).edges[Len(Val(out).edges)] = Val(call.high)

\* Bin k (1-based) of the axis e overlaps [low, high).
Overlaps(e, k, low, high) == e[k] < high /\ low < e[k + 1]

\* C9: for min <= low < high <= max, cut(low, high, 'expand') returns a
\* contiguous run of the original edges with new min <= low and new
\* max >= high, and the mask keeps every original bin that overlaps
\* [low, high).
C9_ExpandCovers ==
    (Returned("cut") /\ ValidEdges(before)
        /\ call.s0 = "expand" /\ call.s1 = "expand"
        /\ call.low # None /\ call.high # None
        /\ before[1] <= Val(call.low) /\ Val(call.low) < Val(call.high)
        /\ Val(call.high) <= before[Len(before)]) =>
        /\ raised = "none" /\ out # None
        /\ LET new == Val(out).edges
           IN  /\ ValidEdges(new)
               /\ \E a \in 0..nbins(before) :
                     new = [k \in 1..Len(new) |-> before[a + k]]
               /\ new[1] <= Val(call.low)
               /\ new[Len(new)] >= Val(call.high)
        /\ Len(mask) = nbins(before)
        /\ \A k \in 1..nbins(before) :
              Overlaps(before, k, Val(call.low), Val(call.high)) => mask[k]

\* C9 witness: an expanding cut between two points inside bins has
\* returned more than one bin and dropped one.
C9_Witness ==
    /\ Returned("cut") /\ ValidEdges(before)
    /\ call.s0 = "expand" /\ call.s1 = "expand"
    /\ call.low # None /\ call.high # None
    /\ before[1] < Val(call.low) /\ Val(call.low) < Val(call.high)
    /\ Val(call.high) < before[Len(before)]
    /\ raised = "none"
    /\ Val(out).edges[1] < Val(call.low)
    /\ Val(out).edges[Len(Val(out).edges)] > Val(call.high)
    /\ Len(Val(out).edges) >= 3
    /\ \E k \in 1..Len(mask) : ~mask[k]

\* The edges (0-based indices into the receiver's) that mergebins(n, snap,
\* clip) is to keep, for 1 <= n <= nb, nb the receiver's nbins.
ExpectedMerge(nb, n, snap, clip) ==
    LET d == nb \div n
        m == nb % n
    IN  IF m = 0 THEN [k \in 1..(d + 1) |-> (k - 1) * n]
        ELSE IF clip /\ snap = "low" THEN [k \in 1..(d + 1) |-> (k - 1) * n]
        ELSE IF clip THEN [k \in 1..(d + 1) |-> m + (k - 1) * n]
        ELSE IF snap = "low"
        THEN [k \in 1..(d + 2) |-> IF k = d + 2 THEN nb ELSE (k - 1) * n]
        ELSE [k \in 1..(d + 2) |-> IF k = 1 THEN 0 ELSE m + (k - 2) * n]

\* C10: for 1 <= n <= nbins, mergebins(n, snap, clip) leaves the receiver
\* unchanged and returns a subsequence of its edges: every n-th edge when n
\* divides nbins; otherwise floor(nbins/n) bins of n original bins each,
\* anchored at min (snap low) or max (snap high), when it clips, and
\* floor(nbins/n)+1 bins, both extremes kept, the nbins mod n leftover bins
\* in one bin at the end opposite to snap, when it does not.
C10_MergeBins ==
    (Returned("mergebins") /\ ValidEdges(before)
        /\ call.snap \in MergeSnaps /\ 1 <= call.n /\ call.n <= nbins(before)) =>
        LET nb == nbins(before)
            n == call.n
            d == nb \div n
            m == nb % n
            idx == ExpectedMerge(nb, n, call.snap, call.clip)
        IN  /\ raised = "none" /\ out # None
            /\ axis.edges = before
            /\ Val(out).edges = [k \in 1..Len(idx) |-> before[idx[k] + 1]]
            /\ Val(out).label = axis.label
            /\ nbins(Val(out).edges) = IF m = 0 \/ call.clip THEN d ELSE d + 1
            /\ (m = 0 \/ ~call.clip \/ call.snap = "low") => Val(out).edges[1] = before[1]
            /\ (m = 0 \/ ~call.clip \/ call.snap = "high") =>
                  Val(out).edges[Len(Val(out).edges)] = before[Len(before)]

\* C10 witness: mergebins has clipped a remainder at the low end while
\* merging into more than one bin.
C10_Witness ==
    /\ Returned("mergebins") /\ ValidEdges(before)
    /\ call.snap = "high" /\ call.clip /\ call.n >= 2
    /\ nbins(before) % call.n # 0
    /\ raised = "none"
    /\ nbins(Val(out).edges) >= 2
    /\ Val(out).edges[1] > before[1]

\* C15: assigning edges, directly or by constructing from an explicit edge
\* sequence, with fewer than 2 points or with a sequence that is not
\* strictly increasing raises ValueError and installs nothing.
C15_BadEdgesRejected ==
    /\ (Returned("setedges") /\ ~ValidEdges(call.edges)) =>
          (raised = "ValueError" /\ axis.edges = before)
    /\ (Returned("init") /\ call.bins = "edges" /\ call.limits = NoLimits
            /\ ~ValidEdges(call.edges)) =>
          (raised = "ValueError" /\ out = None)

\* C16: HistogramAxis(n) with an integer n and no range raises TypeError;
\* with a range that is not of length 2 or not low < high it raises
\* ValueError.
C16_CountNeedsRange ==
    (Returned("init") /\ call.bins = "int") =>
        /\ call.limits.kind = "none" => raised = "TypeError"
        /\ (call.limits.kind = "seq"
              /\ (Len(call.limits.v) # 2 \/ ~(call.limits.v[1] < call.limits.v[2]))) =>
              raised = "ValueError"

\* C17: HistogramAxis(edges, limits, label) with limits not None raises
\* TypeError whatever the label, omitted included.
C17_EdgesWithLimits ==
    (Returned("init") /\ call.bins = "edges" /\ call.limits # NoLimits) =>
        (raised = "TypeError" /\ out = None)

\* The entries of a mask that are true.
Trues(m) == {k \in 1..Len(m) : m[k]}

\* C18: when cut returns, its mask is as long as the receiver has bins, the
\* true entries are one contiguous run, and there are as many of them as
\* the returned axis has bins.
C18_MaskFitsAxis ==
    (Returned("cut") /\ ValidEdges(before) /\ raised = "none") =>
        /\ Len(mask) = nbins(before)
        /\ \A i \in Trues(mask), j \in Trues(mask) :
              \A k \in i..j : mask[k]
        /\ Cardinality(Trues(mask)) = nbins(Val(out).edges)

(* --------------------------- rational values -------------------------- *)

\* Bin contents are exact rationals <<n, d>> in lowest terms with d > 0;
\* an integer-typed array holds rationals with d = 1.
RECURSIVE GCD(_, _)
GCD(a, b) == IF b = 0 THEN a ELSE GCD(b, a % b)

Rat(n, d) ==
    LET g == GCD(Abs(n), Abs(d))
        s == IF d < 0 THEN 0 - 1 ELSE 1
    IN  <<(s * n) \div g, (s * d) \div g>>

Q(n) == <<n, 1>>
RAdd(a, b) == Rat(a[1] * b[2] + b[1] * a[2], a[2] * b[2])
RSub(a, b) == Rat(a[1] * b[2] - b[1] * a[2], a[2] * b[2])
RMul(a, b) == Rat(a[1] * b[1], a[2] * b[2])
RDiv(a, b) == Rat(a[1] * b[2], a[2] * b[1])

RECURSIVE RSum(_)
RSum(s) == IF s = <<>> THEN Q(0) ELSE RAdd(Head(s), RSum(Tail(s)))

(* ----------------------------- Histogram ------------------------------ *)

\* A Histogram object: its identity (id), the identity of its axes tuple
\* (axes_id), the axes, the data array (flat, in C order) with its dtype,
\* the optional uncertainty array, label and title.  The uncertainty of a
\* bin is held as its square, so that sums in quadrature stay rational.

RECURSIVE Product(_)
Product(s) == IF s = <<>> THEN 1 ELSE Head(s) * Product(Tail(s))

\* data.shape
shape(axes) == [i \in 1..Len(axes) |-> nbins(axes[i].edges)]

\* Histogram(*axes, data=, uncert=, label=, title=): at least one axis, and
\* arrays of the shape the axes give.
Histogram(id, axes, data, dtype, uncert, label, title) ==
    IF \/ Len(axes) = 0
       \/ Len(data) # Product(shape(axes))
       \/ (uncert # None /\ Len(Val(uncert)) # Len(data))
    THEN [raised |-> "rejected", obj |-> None]
    ELSE [raised |-> "none",
          obj |-> Some([id |-> id, axes_id |-> id, axes |-> axes,
                        data |-> data, dtype |-> dtype, uncert |-> uncert,
                        label |-> label, title |-> title])]

\* The errors a rejected argument may raise (a validation or a type error).
Rejections == {"ValueError", "TypeError"}

\* np.allclose(a, b) on edge arrays: |a - b| <= atol + rtol * |b| with
\* rtol = 1e-5 and atol = 1e-8; on the half-integer grid that is
\* |va - vb| * 10^5 <= |vb|.  Arrays of different lengths do not broadcast
\* (ValueError) unless one of them has one element.
InvRtol == 100000
isclose(va, vb) == Abs(va - vb) * InvRtol <= Abs(vb)

allclose_raises(a, b) == Len(a) # Len(b) /\ Len(a) # 1 /\ Len(b) # 1

\* The length two arrays broadcast to: a one-element array takes the
\* length of the other one (0 for an empty one).
broadcast_len(a, b) == IF Len(a) = 1 THEN Len(b) ELSE Len(a)

allclose(a, b) ==
    \A i \in 1..broadcast_len(a, b) :
        isclose(a[IF Len(a) = 1 THEN 1 ELSE i], b[IF Len(b) = 1 THEN 1 ELSE i])

\* HistogramAxis.__eq__
axis_eq(a, b) ==
    IF allclose_raises(a.edges, b.edges) THEN FALSE ELSE allclose(a.edges, b.edges)

\* Two tuples of axes are the same binning.
same_axes(A, B) ==
    Len(A) = Len(B) /\ \A i \in 1..Len(A) : axis_eq(A[i], B[i])

(* ----------------------------- arithmetic ----------------------------- *)

Ops == {"add", "sub", "mul", "div"}

\* The operand as arrays: its values, the squares of its uncertainties
\* (zero where it tracks none), its dtype, and whether it tracks any.
operand_data(h, x) ==
    IF x.kind = "scalar" THEN [k \in 1..Len(h.data) |-> x.v]
    ELSE IF x.kind = "array" THEN x.data
    ELSE x.h.data

operand_dtype(x) == IF x.kind = "hist" THEN x.h.dtype ELSE x.dtype

tracks(x) == x.kind = "hist" /\ x.h.uncert # None

variance(u, n) == IF u = None THEN [k \in 1..n |-> Q(0)] ELSE Val(u)

operand_variance(x, n) ==
    IF x.kind = "hist" THEN variance(x.h.uncert, n) ELSE [k \in 1..n |-> Q(0)]

\* The operand does not fit the receiver.
mismatch(h, x) ==
    \/ x.kind = "array" /\ Len(x.data) # Len(h.data)
    \/ x.kind = "hist" /\ ~same_axes(h.axes, x.h.axes)

\* One cell of the result; a cell divided by a zero cell is 0.
cell(op, a, b) ==
    CASE op = "add" -> RAdd(a, b)
      [] op = "sub" -> RSub(a, b)
      [] op = "mul" -> RMul(a, b)
      [] op = "div" -> IF b[1] = 0 THEN Q(0) ELSE RDiv(a, b)

\* (u/d)^2, a zero d contributing nothing.
relative(u2, d) == IF d[1] = 0 THEN Q(0) ELSE RDiv(u2, RMul(d, d))

\* The square of the uncertainty of one cell of the result r.
cell_variance(op, a, ua, b, ub, r) ==
    IF op \in {"add", "sub"}
    THEN RAdd(ua, ub)
    ELSE RMul(RMul(r, r), RAdd(relative(ua, a), relative(ub, b)))

\* Division, or a floating-point operand, gives floating point.
result_dtype(op, h, x) ==
    IF op = "div" \/ h.dtype = "float" \/ operand_dtype(x) = "float"
    THEN "float" ELSE "int"

result_data(op, h, x) ==
    [k \in 1..Len(h.data) |-> cell(op, h.data[k], operand_data(h, x)[k])]

result_uncert(op, h, x) ==
    IF h.uncert = None /\ ~tracks(x)
    THEN None
    ELSE LET n == Len(h.data)
         IN  Some([k \in 1..n |->
                     cell_variance(op, h.data[k], variance(h.uncert, n)[k],
                                   operand_data(h, x)[k], operand_variance(x, n)[k],
                                   result_data(op, h, x)[k])])

\* h op x: a new Histogram on copies of the receiver's axes.
binary(id, h, op, x) ==
    IF mismatch(h, x)
    THEN [raised |-> "rejected", obj |-> None]
    ELSE Histogram(id, h.axes, result_data(op, h, x), result_dtype(op, h, x),
                   result_uncert(op, h, x), h.label, h.title)

\* No in-place division is disallowed.
itruediv_allowed(h, op, x) == FALSE

\* h /= a Histogram, h of an integer type.
itruediv_disallowed(h, op, x) ==
    op = "div" /\ x.kind = "hist" /\ h.dtype = "int"

\* h op= x putting the receiver on a new tuple of axes.
inplace_fresh_axes(h, op, x) ==
    IF mismatch(h, x)
    THEN [raised |-> "rejected", obj |-> h]
    ELSE IF itruediv_disallowed(h, op, x)
    THEN [raised |-> "TypeError", obj |-> h]
    ELSE [raised |-> "none",
          obj |-> [h EXCEPT !.data = result_data(op, h, x),
                            !.dtype = result_dtype(op, h, x),
                            !.uncert = result_uncert(op, h, x),
                            !.axes_id = 3]]

\* h op= x: the receiver's buffers are replaced, the rest stays.
inplace(h, op, x) ==
    IF mismatch(h, x)
    THEN [raised |-> "rejected", obj |-> h]
    ELSE IF itruediv_disallowed(h, op, x)
    THEN [raised |-> "TypeError", obj |-> h]
    ELSE [raised |-> "none",
          obj |-> [h EXCEPT !.data = result_data(op, h, x),
                            !.dtype = result_dtype(op, h, x),
                            !.uncert = result_uncert(op, h, x)]]

(* ------------------------------- rebin -------------------------------- *)

RECURSIVE RSumOver(_, _)
RSumOver(f, S) ==
    IF S = {} THEN Q(0)
    ELSE LET k == CHOOSE k \in S : TRUE IN RAdd(f[k], RSumOver(f, S \ {k}))

\* The bins of the edges old that lie in bin j of the merged edges new.
merged_into(old, new, j) ==
    {k \in 1..nbins(old) : new[j] <= old[k] /\ old[k + 1] <= new[j + 1]}

\* The contents of the merged bins: each the sum of the bins merged into
\* it; the bins mergebins left out of every merged bin are left out here.
rebinned(vals, old, new) ==
    [j \in 1..Max2(0, nbins(new)) |-> RSumOver(vals, merged_into(old, new, j))]

\* h.rebin(n, 0, snap, clip) of a one-dimensional Histogram: mergebins on
\* the axis, then the sums; uncertainties add in quadrature.
rebin(id, h, n, snap, clip) ==
    LET a == h.axes[1]
        m == mergebins(a, n, snap, clip)
    IN  IF m.raised # "none" THEN [raised |-> m.raised, obj |-> None]
        ELSE LET na == Val(m.obj)
             IN  Histogram(id, <<na>>, rebinned(h.data, a.edges, na.edges), h.dtype,
                           IF h.uncert = None THEN None
                           ELSE Some(rebinned(Val(h.uncert), a.edges, na.edges)),
                           h.label, h.title)

(* ----------------------------- persistence ---------------------------- *)

\* Below 2^24 every integer is a float32; from there on float32 keeps 24
\* significant bits.  (v stands for v/2, and halving is exact in binary.)
F32Exact == 16777216

\* The spacing of the float32 values around v >= 0.
RECURSIVE ulp(_, _)
ulp(v, step) == IF v < F32Exact * step THEN step ELSE ulp(v, 2 * step)

\* v >= 0 rounded to a multiple of step, a tie going to the even multiple.
round_half_even(v, step) ==
    LET q == v \div step
        r == v % step
    IN  IF 2 * r < step THEN q * step
        ELSE IF 2 * r > step THEN (q + 1) * step
        ELSE IF q % 2 = 0 THEN q * step ELSE (q + 1) * step

\* The value of type 'f' (float32) that create_dataset stores for v.
F32(v) ==
    IF v < 0 THEN 0 - round_half_even(0 - v, ulp(0 - v, 1))
    ELSE round_half_even(v, ulp(v, 1))

\* encoded_str(s): the bytes of a str; decoded_str(b): the str of bytes,
\* None staying None.
encoded_str(s) == [bytes |-> s]
decoded_str(b) == IF b = None THEN None ELSE Some(Val(b).bytes)

\* The attribute written for a label that is not None.
attr(l) == IF l = None THEN None ELSE Some(encoded_str(Val(l)))

\* save_histogram_to_hdf5_group(grp, hist): the group's datasets and
\* attributes.
save_histogram_to_hdf5_group(h) ==
    [data |-> [shape |-> shape(h.axes), dtype |-> h.dtype, v |-> h.data],
     uncert |-> h.uncert,
     edges |-> [i \in 1..Len(h.axes) |->
                  [v |-> [k \in 1..Len(h.axes[i].edges) |-> F32(h.axes[i].edges[k])],
                   label |-> attr(h.axes[i].label)]],
     label |-> attr(h.label),
     title |-> attr(h.title)]

\* HistogramAxis(np.asarray(edges), label = decoded_str(...)) for dataset i
loaded_axis(g, i) ==
    HistogramAxis([kind |-> "edges", edges |-> g.edges[i].v, dtype |-> "float"],
                  NoLimits, decoded_str(g.edges[i].label))

\* load_histogram_from_hdf5_group(grp)
load_histogram_from_hdf5_group(id, g) ==
    LET n == Len(g.data.shape)
        bad == {i \in 1..n : loaded_axis(g, i).raised # "none"}
    IN  IF bad # {}
        THEN [raised |-> loaded_axis(g, CHOOSE i \in bad : \A j \in bad : i <= j).raised,
              obj |-> None]
        ELSE Histogram(id, [i \in 1..n |-> Val(loaded_axis(g, i).obj)],
                       g.data.v, g.data.dtype, g.uncert,
                       decoded_str(g.label), decoded_str(g.title))

(* ------------------------ the Histogram's caller ---------------------- *)

\* Bin contents and operand values are the counts 0..MaxCount.
MaxCount == 2
\* A Histogram written to a file has up to MaxAxes axes.
MaxAxes == 2

\* An axis built from a list of edges.
AxisOf(b, l) == Val(HistogramAxis(b, NoLimits, l).obj)

FloatEdges(e) == [kind |-> "edges", edges |-> e, dtype |-> "float"]

Counts(n) == [1..n -> {Q(c) : c \in 0..MaxCount}]

\* The Histograms over the given tuples of axes, every bin holding a
\* count, with or without the uncertainties of counts (u^2 = count).
Hists(id, tuples) ==
    UNION {{Val(Histogram(id, A, d, t, IF w THEN Some(d) ELSE None, None, None).obj) :
              d \in Counts(Product(shape(A))), t \in {"int", "float"}, w \in BOOLEAN} :
           A \in tuples}

\* One axis with whole-number edges on the grid.
HistLists == {e \in GoodLists : Len(e) >= 2 /\ WholeList(e)}
OneAxis == {<<AxisOf(FloatEdges(e), None)>> : e \in HistLists}

\* What a Histogram h can be combined with: a scalar, an array (of h's
\* shape or not), a Histogram (on h's axes or not).
Operands(h) ==
    {[kind |-> "scalar", v |-> Q(c), dtype |-> "int"] : c \in 0..MaxCount}
      \cup {[kind |-> "scalar", v |-> Rat(1, 2), dtype |-> "float"]}
      \cup {[kind |-> "array", data |-> d, dtype |-> t] :
              d \in Counts(Len(h.data)) \cup Counts(Len(h.data) + 1),
              t \in {"int", "float"}}
      \cup {[kind |-> "hist", h |-> o] : o \in Hists(2, OneAxis)}

\* The caller holds one of the Histograms.
StartHist(hists) ==
    /\ hist \in hists
    /\ other = NoArg
    /\ hout = None
    /\ grp = None
    /\ axis = hist.axes[1]
    /\ pc = "idle"
    /\ call = NoCall
    /\ before = <<>>
    /\ ret = <<>>
    /\ out = None
    /\ mask = <<>>
    /\ raised = "none"
    /\ calls = 0

\* A call c on the receiver ends: the receiver is h, the operand x, the
\* call returned the Histogram o or raised ex.
HistReturns(c, h, x, o, ex) ==
    /\ call' = c
    /\ hist' = h
    /\ other' = x
    /\ hout' = o
    /\ raised' = ex
    /\ pc' = "returned"
    /\ calls' = calls + 1
    /\ UNCHANGED <<avars, grp>>

\* The error of a call: a rejected argument raises one of Rejections.
Raises(r, ex) == IF r = "rejected" THEN ex ELSE r

\* A scalar zero as divisor is left out (no source says what it gives).
Divides(op, x) == ~(op = "div" /\ x.kind = "scalar" /\ x.v[1] = 0)

\* hout = hist op x
Arithmetic ==
    /\ pc = "idle"
    /\ \E op \in Ops, x \in Operands(hist), ex \in Rejections :
          LET r == binary(3, hist, op, x)
          IN  /\ Divides(op, x)
              /\ r.raised = "rejected" \/ ex = "ValueError"
              /\ HistReturns([op |-> "binary", f |-> op, h |-> hist, x |-> x],
                             hist, x, r.obj, Raises(r.raised, ex))

\* hist op= x
InPlace ==
    /\ pc = "idle"
    /\ \E op \in Ops, x \in Operands(hist), ex \in Rejections :
          LET r == inplace(hist, op, x)
          IN  /\ Divides(op, x)
              /\ r.raised = "rejected" \/ ex = "ValueError"
              /\ HistReturns([op |-> "inplace", f |-> op, h |-> hist, x |-> x],
                             r.obj, x, None, Raises(r.raised, ex))

InitArith == StartHist(Hists(1, OneAxis))

\* One arithmetic call on a Histogram.
SpecArith == InitArith /\ [][Arithmetic \/ InPlace]_vars

\* hout = hist.rebin(n, 0, snap, clip)
Rebin ==
    /\ pc = "idle"
    /\ \E n \in MergeSizes, snap \in MergeSnaps \cup {"nearest"}, clip \in BOOLEAN,
          ex \in Rejections :
          LET r == rebin(3, hist, n, snap, clip)
          IN  /\ r.raised = "rejected" \/ ex = "ValueError"
              /\ HistReturns([op |-> "rebin", h |-> hist, n |-> n, snap |-> snap,
                              clip |-> clip],
                             hist, NoArg, r.obj, Raises(r.raised, ex))

\* One-dimensional Histograms on the axes mergebins is applied to, every
\* bin holding 1, or bin k holding k.
Ones(n) == [k \in 1..n |-> Q(1)]
Ramp(n) == [k \in 1..n |-> Q(k)]

RebinLists == {e \in {SortedSeq(S) : S \in SUBSET (0..MaxBins)} : Len(e) >= 2}

Filled(ramp, n) == IF ramp THEN Ramp(n) ELSE Ones(n)

RebinHists ==
    {Val(Histogram(1, <<AxisOf(FloatEdges(e), None)>>, Filled(f, nbins(e)), "int",
                   IF w THEN Some(Filled(f, nbins(e))) ELSE None, None, None).obj) :
       e \in RebinLists, f \in BOOLEAN, w \in BOOLEAN}

InitRebin == StartHist(RebinHists)

\* One rebin of a one-dimensional Histogram.
SpecRebin == InitRebin /\ [][Rebin]_vars

\* save_histogram_to_hdf5_group(grp, hist)
Save ==
    /\ pc = "idle"
    /\ grp' = Some(save_histogram_to_hdf5_group(hist))
    /\ pc' = "saved"
    /\ call' = [op |-> "save"]
    /\ UNCHANGED <<avars, hist, other, hout, raised, calls>>

\* hout = load_histogram_from_hdf5_group(grp)
Load ==
    /\ pc = "saved"
    /\ \E ex \in Rejections :
          LET r == load_histogram_from_hdf5_group(3, Val(grp))
          IN  /\ r.raised = "rejected" \/ ex = "ValueError"
              /\ HistReturns([op |-> "load"], hist, NoArg, r.obj, Raises(r.raised, ex))

\* Edge lists written to a file: small ones, and ones next to 2^23 (2^24
\* on the half-integer grid).
PersistLists ==
    {<<0, 1>>, <<0, 2, 4>>, <<F32Exact, F32Exact + 1>>, <<F32Exact + 1, F32Exact + 3>>}

PersistAxes == {AxisOf(b, l) : b \in EdgeInputs(PersistLists), l \in Labels}

Halves(n) == [k \in 1..n |-> Rat(k, 2)]

PersistHists ==
    UNION {{Val(Histogram(1, A, d[2], d[1], IF w THEN Some(d[2]) ELSE None, l, t).obj) :
              d \in {<<"int", Ramp(Product(shape(A)))>>,
                     <<"float", Halves(Product(shape(A)))>>},
              w \in BOOLEAN, l \in Labels, t \in Labels} :
           A \in UNION {[1..n -> PersistAxes] : n \in 1..MaxAxes}}

InitPersist == StartHist(PersistHists)

\* A Histogram saved to a group and loaded from it.
SpecPersist == InitPersist /\ [][Save \/ Load]_vars

\* What loading gave is the Histogram h again: as many axes, each equal to
\* h's by __eq__ and with h's label, h's data, uncert, label and title.
Reproduces(l, h) ==
    /\ Len(l.axes) = Len(h.axes)
    /\ \A i \in 1..Len(h.axes) :
          axis_eq(l.axes[i], h.axes[i]) /\ l.axes[i].label = h.axes[i].label
    /\ l.data = h.data /\ l.dtype = h.dtype
    /\ l.uncert = h.uncert
    /\ l.label = h.label /\ l.title = h.title

\* C14: loading the group that save_histogram_to_hdf5_group wrote for a
\* Histogram gives a Histogram with the same axes (by axis equality, same
\* labels, same order), data, uncert, label and title.
C14_RoundTrip ==
    Returned("load") =>
        (raised = "none" /\ hout # None /\ Reproduces(Val(hout), hist))

\* The Histograms an operand holds.
HistsOf(x) == IF x.kind = "hist" THEN {x.h} ELSE {}

\* Everything of a Histogram but its data, dtype and uncert.
Frame(h) == [id |-> h.id, axes_id |-> h.axes_id, axes |-> h.axes,
             label |-> h.label, title |-> h.title]

\* C11: h op x returns a new Histogram and leaves every operand Histogram
\* as it was (data, dtype, uncert, axes); h op= x changes nothing of the
\* receiver but data, dtype and uncert (the receiver and its axes tuple
\* stay the same objects), and leaves the operand as it was.
C11_ArithmeticFrame ==
    /\ Returned("binary") =>
          /\ hist = call.h
          /\ other = call.x
          /\ raised = "none" =>
                /\ hout # None
                /\ \A o \in {call.h} \cup HistsOf(call.x) :
                      Val(hout).id # o.id /\ Val(hout).axes_id # o.axes_id
                /\ same_axes(Val(hout).axes, call.h.axes)
    /\ Returned("inplace") =>
          /\ Frame(hist) = Frame(call.h)
          /\ other = call.x
          /\ hout = None
          /\ raised # "none" => hist = call.h

\* A Histogram operand with uncertainties, added in place: the receiver's
\* data and uncert changed, the operand and the axes did not.
C11_Witness ==
    /\ Returned("inplace") /\ raised = "none" /\ call.f = "add"
    /\ call.x.kind = "hist" /\ call.x.h.uncert # None
    /\ Len(call.h.data) = 2
    /\ hist.data # call.h.data /\ hist.uncert # call.h.uncert
    /\ other = call.x /\ hist.axes_id = call.h.axes_id

\* The operand is one the receiver can be combined with.
Fits(h, x) == ~mismatch(h, x)

\* The value a scalar or array operand has at cell k.
At(x, k) == IF x.kind = "scalar" THEN x.v ELSE x.data[k]

\* C12: h /= g with h integer-typed and g a Histogram raises TypeError and
\* leaves h's data as it was; h /= x with h integer-typed and x a scalar
\* or an array of h's shape succeeds and h's data becomes floating point
\* (each cell the quotient); h /= g with h floating-point succeeds.
C12_InPlaceDivision ==
    (Returned("inplace") /\ call.f = "div" /\ Fits(call.h, call.x)) =>
        /\ (call.h.dtype = "int" /\ call.x.kind = "hist") =>
              /\ raised = "TypeError"
              /\ hist.data = call.h.data /\ hist.dtype = "int"
        /\ (call.h.dtype = "int" /\ call.x.kind \in {"scalar", "array"}) =>
              /\ raised = "none"
              /\ hist.dtype = "float"
              /\ \A k \in 1..Len(hist.data) :
                    At(call.x, k)[1] # 0 =>
                        RMul(hist.data[k], At(call.x, k)) = call.h.data[k]
        /\ (call.h.dtype = "float" /\ call.x.kind = "hist") =>
              /\ raised = "none"
              /\ hist.dtype = "float"

\* An integer Histogram divided in place by a Histogram on the same axes.
C12_Witness ==
    /\ Returned("inplace") /\ call.f = "div" /\ raised = "TypeError"
    /\ call.h.dtype = "int" /\ call.x.kind = "hist"
    /\ same_axes(call.h.axes, call.x.h.axes)
    /\ call.x.h.data # call.h.data
    /\ hist = call.h

\* The sum of the n cells of data from cell first + 1 on.
Window(data, first, n) == RSum(SubSeq(data, first + 1, first + n))

\* C13: rebin(n) of a one-dimensional Histogram returns a new Histogram
\* whose data has as many cells as its axis has bins.  When n divides
\* nbins, its edges are every n-th edge and cell j is the sum of the n
\* cells j*n .. j*n + n - 1, so the total is kept.  When it does not and
\* clip is set, the nbins % n bins that mergebins leaves out of the edges
\* (the last ones for snap 'low', the first ones for 'high') are left out
\* of the data; without clip no bin is left out and the total is kept.
C13_Rebin ==
    (Returned("rebin") /\ raised = "none") =>
        LET old == call.h
            e == old.axes[1].edges
            nb == nbins(e)
            n == call.n
            m == nb % n
            new == Val(hout)
            ne == new.axes[1].edges
            skip == IF m # 0 /\ call.clip /\ call.snap = "high" THEN m ELSE 0
        IN  /\ hist = old /\ new.id # old.id
            /\ Len(new.data) = Max2(0, nbins(ne))
            /\ m = 0 =>
                  /\ Len(ne) = (nb \div n) + 1
                  /\ \A j \in 1..Len(ne) : ne[j] = e[(j - 1) * n + 1]
                  /\ RSum(new.data) = RSum(old.data)
            /\ (m = 0 \/ call.clip) =>
                  /\ Len(new.data) = nb \div n
                  /\ \A j \in 1..Len(new.data) :
                        new.data[j] = Window(old.data, skip + (j - 1) * n, n)
            /\ (m # 0 /\ ~call.clip) =>
                  /\ Len(new.data) = (nb \div n) + 1
                  /\ RSum(new.data) = RSum(old.data)

\* Four bins holding 1, 2, 3, 4 merged two by two into 3 and 7.
C13_Witness ==
    /\ Returned("rebin") /\ raised = "none" /\ call.n = 2
    /\ nbins(call.h.axes[1].edges) = 4
    /\ call.h.data = Ramp(4)
    /\ hout # None /\ Val(hout).data = <<Q(3), Q(7)>>
====
